---- MODULE Spec2Model ----
(***************************************************************************)
(* The terminal-session relay of server/index.js and its WSL fallback      *)
(* module server/pty-wsl-fallback.js.                                      *)
(*                                                                         *)
(* One state machine: the module-level variables of index.js (pty,         *)
(* fallbackPty, terminalBackend, activePtys), the top-level startup probe, *)
(* and one handler per socket.io connection.  A handler is cut at its      *)
(* await points: the dynamic import inside loadFallback (real I/O, other   *)
(* events run meanwhile) and the promise continuations of                  *)
(* `await loadFallback()` and `await spawnPty()` (microtasks: no new       *)
(* event-loop task runs before them).                                      *)
(***************************************************************************)
EXTENDS Integers, Sequences, FiniteSets, TLC

\* Number of socket.io connections the service sees in one run.
MaxConns == 2

\* Chunks the child processes write, 'terminal.input' events the clients
\* send, and calls of kill() made on handles directly, in one run.
MaxChunks == 2
MaxInputs == 2
MaxKills == 2

\* Requests app.js answers in one run, and the largest maxAttempts a
\* caller passes to withRetry.
MaxRequests == 2
MaxAttempts == 3

\* WebSocketManager: connections the client opens, pings it sends and
\* messages it receives in one run.
MaxTasks == 2
MaxPings == 1
MaxMessages == 1

Conns == 1..MaxConns

\* The three values of terminalBackend (index.js:23, 30, 36).
NodePty == "node-pty"
WslFallback == "wsl-fallback"
PowerShellChild == "powershell-child"

\* The fixed demotion path, best first.
Strategies == <<NodePty, WslFallback, PowerShellChild>>

Rank(s) == CHOOSE i \in 1..Len(Strategies) : Strategies[i] = s

\* The two texts the server itself writes on a connection's outbound channel.
\* Every element of an outbound channel has the same shape.
UnableNotice == [type |-> "unable", stream |-> "server", seq |-> 0]
ExitNotice == [type |-> "exit", stream |-> "handle", seq |-> 0]

\* The output streams of a child: stdout and stderr pipes for the handles
\* built on child_process.spawn, the one pty stream for node-pty.
AllStreams == {"stdout", "stderr", "pty"}

\* A chunk of process output as emitted on the outbound channel.
DataChunk(s, n) == [type |-> "data", stream |-> s, seq |-> n]

\* Payloads of a 'terminal.input' event, named by their bytes: the empty
\* string, a non-empty string, and a Buffer of binary data.  "ff" is a byte
\* sequence that is not valid UTF-8 (only a Buffer can hold it), "efbfbd"
\* the UTF-8 encoding of U+FFFD.
Payloads ==
    {[buf |-> FALSE, bytes |-> ""],
     [buf |-> FALSE, bytes |-> "x"],
     [buf |-> TRUE, bytes |-> "ff"]}

\* APIManager.withRetry before it is called.
IdleRetry ==
    [status |-> "idle", maxAttempts |-> 0, delayFits |-> TRUE, attempt |-> 0,
     outcomes |-> << >>, result |-> "none", thrown |-> "none"]

\* app.js: a socket of the realtime gateway before its handshake.
IdleSocket ==
    [stage |-> "none", token |-> "none", welcomed |-> FALSE, rooms |-> {},
     handlers |-> {}]

\* WebSocketManager.swift:26-34  the manager after init(), with no token in
\* the keychain.  Tasks are named 1, 2, ...; 0 is nil.
IdleWs ==
    [hasToken |-> FALSE, task |-> 0, opened |-> 0, opening |-> {},
     receiving |-> {}, cancelled |-> {}, closed |-> {}, pinging |-> {},
     pingsSent |-> 0, messages |-> 0, pingTimer |-> FALSE, timers |-> 0,
     isConnected |-> FALSE, mainQueue |-> << >>, awaiting |-> FALSE,
     userDisconnected |-> FALSE]

VARIABLES
    isWindows,        \* os.platform() === 'win32'
    probe,            \* outcome of the startup import('node-pty')
    service,          \* "starting", "listening", "crashed" (startup threw)
                      \* or "died" (uncaught exception while running)
    pty,              \* module whose spawn() spawnPty calls first
    fallbackPty,      \* TRUE once pty-wsl-fallback.js has been imported
    terminalBackend,  \* the backend state
    activePtys,       \* the session registry: socket id -> process handle
    pc,               \* position of each connection's handler
    settled,          \* how spawnPty settled for the connection
    attempts,         \* strategies whose spawn the handler has called, in order
    handle,           \* kind of the handle spawnPty returned ("none" if none)
    procAlive,        \* the connection's child process is running
    exitSeen,         \* the runtime has dispatched the child's 'exit' event
    observed,         \* the "exit" and "disconnect" events the service has
                      \* handled for the connection, in order
    killed,           \* child.killed: a signal was delivered to the child
    killCalls,        \* number of calls of the handle's kill()
    signals,          \* number of signals delivered to the child
    childError,       \* an 'error' event nobody listens to is queued:
                      \* "none", "tick" (runs before any continuation),
                      \* "afterMicro" (runs once the continuations are done)
    connected,        \* the socket is connected
    wired,            \* onData / terminal.input / disconnect are installed
    outbound,         \* the socket.emit('terminal.output', ...) calls made
    backendAtConnect, \* terminalBackend when the handler started
    pipes,            \* per stream: chunks the child wrote that the runtime
                      \* has not yet dispatched as 'data' events
    produced,         \* number of chunks the child has written
    received,         \* payloads of the 'terminal.input' events handled
    stdin,            \* what has been written into the child's stdin
    dropped,          \* 'terminal.input' packets that reached no listener
    healthReplies,    \* the bodies GET /health has answered with
    httpLog,          \* app.js: the requests answered, with their outcome
    retry,            \* APIManager.withRetry: the state of one call
    origins,          \* per socket: the connections whose process output
                      \* or exit notice has been emitted on it
    killThrew,        \* the handle's kill() threw in the disconnect listener
    gateway,          \* app.js: the sockets of the realtime gateway
    ws                \* WebSocketManager: the state of the shared manager

vars == <<isWindows, probe, service, pty, fallbackPty, terminalBackend,
          activePtys, pc, settled, attempts, handle, procAlive, exitSeen,
          observed, killed, killCalls, signals, childError, connected, wired,
          outbound, backendAtConnect, pipes, produced, received, stdin,
          dropped, healthReplies, httpLog, retry, origins, killThrew, gateway,
          ws>>

moreVars == <<killThrew, gateway, ws>>

\* The state of the HTTP side and of the iOS client.
apiVars == <<healthReplies, httpLog, retry, moreVars>>

ioVars == <<pipes, produced, received, stdin, dropped, apiVars, origins>>

killVars == <<killed, killCalls, signals>>

envVars == <<isWindows, probe, service>>

Init ==
    /\ isWindows \in BOOLEAN
    /\ probe = "pending"
    /\ service = "starting"
    /\ pty = "none"
    /\ fallbackPty = FALSE
    /\ terminalBackend = NodePty
    /\ activePtys = << >>
    /\ pc = [c \in Conns |-> "idle"]
    /\ settled = [c \in Conns |-> "pending"]
    /\ attempts = [c \in Conns |-> << >>]
    /\ handle = [c \in Conns |-> "none"]
    /\ procAlive = [c \in Conns |-> FALSE]
    /\ exitSeen = [c \in Conns |-> FALSE]
    /\ observed = [c \in Conns |-> << >>]
    /\ killed = [c \in Conns |-> FALSE]
    /\ killCalls = [c \in Conns |-> 0]
    /\ signals = [c \in Conns |-> 0]
    /\ childError = "none"
    /\ connected = [c \in Conns |-> FALSE]
    /\ wired = [c \in Conns |-> FALSE]
    /\ outbound = [c \in Conns |-> << >>]
    /\ backendAtConnect = [c \in Conns |-> "none"]
    /\ pipes = [c \in Conns |-> [s \in AllStreams |-> << >>]]
    /\ produced = [c \in Conns |-> 0]
    /\ received = [c \in Conns |-> << >>]
    /\ stdin = [c \in Conns |-> << >>]
    /\ dropped = [c \in Conns |-> 0]
    /\ healthReplies = {}
    /\ httpLog = << >>
    /\ retry = IdleRetry
    /\ origins = [c \in Conns |-> {}]
    /\ killThrew = [c \in Conns |-> FALSE]
    /\ gateway = [c \in Conns |-> IdleSocket]
    /\ ws = IdleWs


(***************************************************************************)
(* Helpers modelling single lines of the source.                           *)
(***************************************************************************)

ProbeFailureAlwaysAbsorbed(win) == TRUE

\* index.js:84  `if (os.platform() === 'win32')` in the startup catch.
ProbeFailureAbsorbed(win) == win

LoadFallbackKeepsBackend == NodePty

\* index.js:30  the value loadFallback assigns to terminalBackend.
LoadFallbackBackend == WslFallback

PowerShellBackendReset == NodePty

\* index.js:36  the value createPowerShellFallback assigns to terminalBackend.
PowerShellBackend == PowerShellChild

LoadedModuleStale(old) == old

\* index.js:109  `pty = await loadFallback()`: the module pty holds afterwards.
LoadedModule(old) == WslFallback

\* index.js:106-137  which way the outer catch of spawnPty goes.
CatchBranch(backend, win) ==
    IF backend = NodePty THEN "load"
    ELSE IF backend = WslFallback /\ win THEN "powershell"
    ELSE "throw"

\* index.js:117-125  which way the inner catch (fallbackError) goes.
FallbackCatchBranch(win) == IF win THEN "powershell" ELSE "throw"

\* No promise continuation is queued.
NoMicrotask == \A c \in Conns : pc[c] \notin {"afterLoad", "afterSpawn"}

Running == service = "listening"

\* The event loop may start a new task: nothing is queued before it.
MacroTask == Running /\ NoMicrotask /\ childError = "none"

\* A promise continuation may run: a queued next-tick callback runs first.
MicroTask == Running /\ childError # "tick"

\* The two handles built on child_process.spawn.
PipeBased(kind) == kind \in {WslFallback, PowerShellChild}

\* child_process.spawn reports EACCES, EAGAIN, EMFILE, ENFILE and ENOENT by
\* an 'error' event on the next tick, not by throwing.  With ENOENT the child
\* object is returned complete; with EMFILE/ENFILE it has no stdio, so
\* `stdout.on` throws (pty-wsl-fallback.js:34, index.js:53).  Neither module
\* listens for 'error' on the child.  node-pty's spawn only returns or throws.
ErrChoices(kind) == IF PipeBased(kind) THEN BOOLEAN ELSE {FALSE}

QueueSpawnError(err, when) ==
    childError' = IF err THEN when ELSE childError

\* spawnPty returns a handle of the given kind; `err`: its spawn had failed.
Resolve(c, kind, err) ==
    /\ handle' = [handle EXCEPT ![c] = kind]
    /\ procAlive' = [procAlive EXCEPT ![c] = ~err]
    /\ settled' = [settled EXCEPT ![c] = "resolved"]

\* spawnPty rejects.
Reject(c) ==
    /\ settled' = [settled EXCEPT ![c] = "rejected"]
    /\ UNCHANGED <<handle, procAlive>>

\* index.js:35-76.  The backend state is assigned before childSpawn runs, so
\* it is assigned whether or not the function throws (ok = FALSE).
CreatePowerShellFallback(c, ok, err) ==
    /\ terminalBackend' = PowerShellBackend
    /\ IF ok THEN Resolve(c, PowerShellChild, err) ELSE Reject(c)

(***************************************************************************)
(* Startup: index.js:78-89, then httpServer.listen (index.js:193).         *)
(***************************************************************************)

\* import('node-pty') succeeds.
StartupProbeOk ==
    /\ service = "starting"
    /\ probe' = "ok"
    /\ pty' = NodePty
    /\ service' = "listening"
    /\ UNCHANGED <<ioVars, isWindows, fallbackPty, terminalBackend, activePtys, pc,
                   settled, attempts, handle, procAlive, exitSeen, observed, killVars,
                   childError, connected, wired, outbound, backendAtConnect>>

\* import('node-pty') fails and the catch absorbs it: pty = await loadFallback().
\* Nothing else runs during this top-level await (no listener exists yet).
StartupFallback ==
    /\ service = "starting"
    /\ ProbeFailureAbsorbed(isWindows)
    /\ probe' = "failed"
    /\ fallbackPty' = TRUE
    /\ terminalBackend' = LoadFallbackBackend
    /\ pty' = WslFallback
    /\ service' = "listening"
    /\ UNCHANGED <<ioVars, isWindows, activePtys, pc, settled, attempts, handle,
                   procAlive, exitSeen, observed, killVars, childError, connected,
                   wired, outbound, backendAtConnect>>

\* import('node-pty') fails and the catch rethrows: the module never finishes
\* loading, no connection handler is installed, the server never listens.
StartupCrash ==
    /\ service = "starting"
    /\ ~ProbeFailureAbsorbed(isWindows)
    /\ probe' = "failed"
    /\ service' = "crashed"
    /\ UNCHANGED <<ioVars, isWindows, pty, fallbackPty, terminalBackend, activePtys,
                   pc, settled, attempts, handle, procAlive, exitSeen, observed,
                   killVars, childError, connected, wired, outbound,
                   backendAtConnect>>

(***************************************************************************)
(* io.on('connection') up to the first await that yields: index.js:141-147 *)
(* and the synchronous part of spawnPty, index.js:97-137.                  *)
(* Socket ids are fresh and opaque, so they are handed out in order.       *)
(***************************************************************************)

Accept(c) ==
    /\ MacroTask
    /\ pc[c] = "idle"
    /\ \A d \in Conns : d < c => pc[d] # "idle"
    /\ connected' = [connected EXCEPT ![c] = TRUE]
    /\ backendAtConnect' = [backendAtConnect EXCEPT ![c] = terminalBackend]

\* index.js:99  pty.spawn returns.
ConnectSpawnOk(c) ==
    /\ Accept(c)
    /\ attempts' = [attempts EXCEPT ![c] = <<pty>>]
    /\ \E err \in ErrChoices(pty) :
          /\ Resolve(c, pty, err)
          /\ QueueSpawnError(err, "tick")
    /\ pc' = [pc EXCEPT ![c] = "afterSpawn"]
    /\ UNCHANGED <<ioVars, envVars, pty, fallbackPty, terminalBackend, activePtys,
                   exitSeen, observed, killVars, wired, outbound>>

\* index.js:99 throws, index.js:107-109: loadFallback is called.  It awaits
\* the import when fallbackPty is unset (index.js:26-27), else it runs through.
ConnectSpawnThrowsLoad(c) ==
    /\ Accept(c)
    /\ CatchBranch(terminalBackend, isWindows) = "load"
    /\ attempts' = [attempts EXCEPT ![c] = <<pty>>]
    /\ \E err \in ErrChoices(pty) : QueueSpawnError(err, "tick")
    /\ IF fallbackPty
         THEN /\ terminalBackend' = LoadFallbackBackend
              /\ pc' = [pc EXCEPT ![c] = "afterLoad"]
         ELSE /\ pc' = [pc EXCEPT ![c] = "import"]
              /\ UNCHANGED terminalBackend
    /\ UNCHANGED <<ioVars, envVars, pty, fallbackPty, activePtys, settled, handle,
                   procAlive, exitSeen, observed, killVars, wired, outbound>>

\* index.js:99 throws, index.js:129-135: createPowerShellFallback.
ConnectSpawnThrowsPowerShell(c) ==
    /\ Accept(c)
    /\ CatchBranch(terminalBackend, isWindows) = "powershell"
    /\ attempts' = [attempts EXCEPT ![c] = <<pty, PowerShellChild>>]
    /\ \E err1 \in ErrChoices(pty), ok \in BOOLEAN, err2 \in BOOLEAN :
          /\ CreatePowerShellFallback(c, ok, err2)
          /\ QueueSpawnError(err1 \/ err2, "tick")
    /\ pc' = [pc EXCEPT ![c] = "afterSpawn"]
    /\ UNCHANGED <<ioVars, envVars, pty, fallbackPty, activePtys, exitSeen, observed, killVars,
                   wired, outbound>>

\* index.js:99 throws, index.js:137: the error is rethrown.
ConnectSpawnRethrows(c) ==
    /\ Accept(c)
    /\ CatchBranch(terminalBackend, isWindows) = "throw"
    /\ attempts' = [attempts EXCEPT ![c] = <<pty>>]
    /\ \E err \in ErrChoices(pty) : QueueSpawnError(err, "tick")
    /\ Reject(c)
    /\ pc' = [pc EXCEPT ![c] = "afterSpawn"]
    /\ UNCHANGED <<ioVars, envVars, pty, fallbackPty, terminalBackend, activePtys,
                   exitSeen, observed, killVars, wired, outbound>>

(***************************************************************************)
(* The continuations of a handler.                                         *)
(***************************************************************************)

\* index.js:27-32  the import inside loadFallback completes; loadFallback
\* runs to its return.  When this happens relative to other handlers'
\* continuations is decided by the module loader, so it is left open.
\* The imported file is part of the repository and imports only built-ins:
\* the import itself is taken to succeed.
ImportDone(c) ==
    /\ MicroTask
    /\ pc[c] = "import"
    /\ fallbackPty' = TRUE
    /\ terminalBackend' = LoadFallbackBackend
    /\ pc' = [pc EXCEPT ![c] = "afterLoad"]
    /\ UNCHANGED <<ioVars, envVars, pty, activePtys, settled, attempts, handle,
                   procAlive, exitSeen, observed, killVars, childError, connected,
                   wired, outbound, backendAtConnect>>

\* index.js:109-116  pty is reassigned and the fallback's spawn returns.
FallbackSpawnOk(c) ==
    /\ MicroTask
    /\ pc[c] = "afterLoad"
    /\ pty' = LoadedModule(pty)
    /\ attempts' = [attempts EXCEPT ![c] = Append(@, pty')]
    /\ \E err \in ErrChoices(pty') :
          /\ Resolve(c, pty', err)
          /\ QueueSpawnError(err, "afterMicro")
    /\ pc' = [pc EXCEPT ![c] = "afterSpawn"]
    /\ UNCHANGED <<ioVars, envVars, fallbackPty, terminalBackend, activePtys,
                   exitSeen, observed, killVars, connected, wired, outbound,
                   backendAtConnect>>

\* A retry loop in place of the inner catch: the fallback is tried again.
FallbackSpawnRetries(c) ==
    /\ MicroTask
    /\ pc[c] = "afterLoad"
    /\ pty' = LoadedModule(pty)
    /\ attempts' = [attempts EXCEPT ![c] = Append(@, pty')]
    /\ UNCHANGED <<ioVars, envVars, fallbackPty, terminalBackend, activePtys, pc,
                   settled, handle, procAlive, exitSeen, observed, killVars,
                   childError, connected, wired, outbound, backendAtConnect>>

\* index.js:109-125  pty is reassigned, the fallback's spawn throws, and the
\* inner catch either builds the PowerShell child or rethrows.
FallbackSpawnThrows(c) ==
    /\ MicroTask
    /\ pc[c] = "afterLoad"
    /\ pty' = LoadedModule(pty)
    /\ \E err1 \in ErrChoices(pty'), ok \in BOOLEAN, err2 \in BOOLEAN :
          IF FallbackCatchBranch(isWindows) = "powershell"
            THEN /\ attempts' = [attempts EXCEPT
                                    ![c] = @ \o <<pty', PowerShellChild>>]
                 /\ CreatePowerShellFallback(c, ok, err2)
                 /\ QueueSpawnError(err1 \/ err2, "afterMicro")
            ELSE /\ attempts' = [attempts EXCEPT ![c] = Append(@, pty')]
                 /\ Reject(c)
                 /\ QueueSpawnError(err1, "afterMicro")
                 /\ UNCHANGED terminalBackend
    /\ pc' = [pc EXCEPT ![c] = "afterSpawn"]
    /\ UNCHANGED <<ioVars, envVars, fallbackPty, activePtys, exitSeen, observed, killVars,
                   connected, wired, outbound, backendAtConnect>>

\* activePtys.set under one shared key instead of socket.id.
RegistryKeyShared(c) == CHOOSE d \in Conns : \A e \in Conns : d <= e

\* index.js:158  the key of activePtys.set: socket.id.
RegistryKey(c) == c

\* index.js:147, 158-182  `await spawnPty()` resolved: the handle is
\* registered under socket.id and the three callbacks are installed.
SessionRegistered(c) ==
    /\ MicroTask
    /\ pc[c] = "afterSpawn"
    /\ settled[c] = "resolved"
    /\ activePtys' = [d \in DOMAIN activePtys \cup {RegistryKey(c)} |->
                         IF d = RegistryKey(c) THEN c ELSE activePtys[d]]
    /\ wired' = [wired EXCEPT ![c] = TRUE]
    /\ pc' = [pc EXCEPT ![c] = "open"]
    /\ UNCHANGED <<ioVars, envVars, pty, fallbackPty, terminalBackend, settled,
                   attempts, handle, procAlive, exitSeen, observed, killVars,
                   childError, connected, outbound, backendAtConnect>>

\* The catch without its `return`: the handler goes on to register and wire.
ConnectionFailedFallsThrough(c) ==
    /\ MicroTask
    /\ pc[c] = "afterSpawn"
    /\ settled[c] = "rejected"
    /\ outbound' = [outbound EXCEPT ![c] = Append(@, UnableNotice)]
    /\ connected' = [connected EXCEPT ![c] = FALSE]
    /\ activePtys' = [d \in DOMAIN activePtys \cup {c} |->
                         IF d = c THEN c ELSE activePtys[d]]
    /\ wired' = [wired EXCEPT ![c] = TRUE]
    /\ pc' = [pc EXCEPT ![c] = "failed"]
    /\ UNCHANGED <<ioVars, envVars, pty, fallbackPty, terminalBackend, settled,
                   attempts, handle, procAlive, exitSeen, observed, killVars,
                   childError, backendAtConnect>>

\* index.js:148-156  `await spawnPty()` rejected: notice, disconnect, return.
ConnectionFailed(c) ==
    /\ MicroTask
    /\ pc[c] = "afterSpawn"
    /\ settled[c] = "rejected"
    /\ outbound' = [outbound EXCEPT ![c] = Append(@, UnableNotice)]
    /\ connected' = [connected EXCEPT ![c] = FALSE]
    /\ pc' = [pc EXCEPT ![c] = "failed"]
    /\ UNCHANGED <<ioVars, envVars, pty, fallbackPty, terminalBackend, activePtys,
                   settled, attempts, handle, procAlive, exitSeen, observed, killVars,
                   childError, wired, backendAtConnect>>

(***************************************************************************)
(* Events of an accepted connection.                                       *)
(***************************************************************************)

\* kill() without the `!killed` test: every call signals a running child.
KillUnguarded(h) ==
    /\ killCalls' = [killCalls EXCEPT ![h] = @ + 1]
    /\ IF procAlive[h]
         THEN /\ killed' = [killed EXCEPT ![h] = TRUE]
              /\ signals' = [signals EXCEPT ![h] = @ + 1]
         ELSE UNCHANGED <<killed, signals>>

\* pty-wsl-fallback.js:63-67, index.js:70-74  kill(): child.kill() is called
\* unless child.killed is set; it signals the child, and sets child.killed,
\* only if the child is still running.
Kill(h) ==
    /\ killCalls' = [killCalls EXCEPT ![h] = @ + 1]
    /\ IF ~killed[h] /\ procAlive[h]
         THEN /\ killed' = [killed EXCEPT ![h] = TRUE]
              /\ signals' = [signals EXCEPT ![h] = @ + 1]
         ELSE UNCHANGED <<killed, signals>>

\* The disconnect listener without proc.kill().
TeardownNoKill(c) ==
    /\ activePtys' = [d \in DOMAIN activePtys \ {c} |-> activePtys[d]]
    /\ UNCHANGED killVars

\* The disconnect listener without activePtys.delete.
TeardownKeepsEntry(c) ==
    /\ Kill(activePtys[c])
    /\ UNCHANGED activePtys

\* The disconnect listener emptying the whole registry.
TeardownClearsRegistry(c) ==
    /\ Kill(activePtys[c])
    /\ activePtys' = << >>

\* index.js:172-181  the body of the disconnect listener when the registry
\* has an entry for the socket: kill, then delete.
Teardown(c) ==
    /\ Kill(activePtys[c])
    /\ activePtys' = [d \in DOMAIN activePtys \ {c} |-> activePtys[d]]

\* The client goes away.  index.js:170-182 runs only if it was installed;
\* a socket that disconnects while its spawn is in flight has no listener.
Disconnect(c) ==
    /\ MacroTask
    /\ connected[c]
    /\ pc[c] \in {"import", "open"}
    /\ connected' = [connected EXCEPT ![c] = FALSE]
    /\ IF wired[c]
         THEN /\ pc' = [pc EXCEPT ![c] = "closed"]
              /\ observed' = [observed EXCEPT ![c] = Append(@, "disconnect")]
              /\ IF c \in DOMAIN activePtys
                   THEN Teardown(c)
                   ELSE UNCHANGED <<killVars, activePtys>>
         ELSE UNCHANGED <<pc, observed, killVars, activePtys>>
    /\ UNCHANGED <<ioVars, envVars, pty, fallbackPty, terminalBackend, settled,
                   attempts, handle, procAlive, exitSeen, childError, wired,
                   outbound, backendAtConnect>>

\* kill() of a pipe-based handle calls child.kill() only while child.killed
\* is unset (pty-wsl-fallback.js:63-67, index.js:70-74), and child.kill()
\* raises only for a child that still runs; a node-pty handle's kill() is
\* the library's own.
KillCanThrow(h) ==
    PipeBased(handle[h]) => (procAlive[h] /\ ~killed[h])

\* The disconnect listener with `finally` left out: a throwing kill() leaves
\* the registry entry in place.
TeardownKillThrowsNoFinally(c) ==
    /\ killCalls' = [killCalls EXCEPT ![activePtys[c]] = @ + 1]
    /\ killThrew' = [killThrew EXCEPT ![c] = TRUE]
    /\ UNCHANGED <<killed, signals, childError, activePtys>>

\* index.js:172-181  proc.kill() throws: no signal was delivered, the catch
\* block logs the error, and `finally` deletes the entry.
TeardownKillThrows(c) ==
    /\ killCalls' = [killCalls EXCEPT ![activePtys[c]] = @ + 1]
    /\ killThrew' = [killThrew EXCEPT ![c] = TRUE]
    /\ UNCHANGED <<killed, signals, childError>>
    /\ activePtys' = [d \in DOMAIN activePtys \ {c} |-> activePtys[d]]

\* The client goes away and the handle's kill() throws in index.js:175.
DisconnectKillThrows(c) ==
    /\ MacroTask
    /\ connected[c]
    /\ pc[c] = "open"
    /\ wired[c]
    /\ c \in DOMAIN activePtys
    /\ KillCanThrow(activePtys[c])
    /\ connected' = [connected EXCEPT ![c] = FALSE]
    /\ pc' = [pc EXCEPT ![c] = "closed"]
    /\ observed' = [observed EXCEPT ![c] = Append(@, "disconnect")]
    /\ TeardownKillThrows(c)
    /\ UNCHANGED <<envVars, pty, fallbackPty, terminalBackend, settled,
                   attempts, handle, procAlive, exitSeen, wired, outbound,
                   backendAtConnect, pipes, produced, received, stdin,
                   dropped, healthReplies, httpLog, retry, gateway, ws,
                   origins>>

\* The child process ends, by itself or after a signal.  This is the
\* operating system's doing: the runtime learns of it only with ProcessExit.
ProcessDies(c) ==
    /\ Running
    /\ procAlive[c]
    /\ procAlive' = [procAlive EXCEPT ![c] = FALSE]
    /\ UNCHANGED <<ioVars, envVars, pty, fallbackPty, terminalBackend, activePtys, pc,
                   settled, attempts, handle, exitSeen, observed, killVars, childError,
                   connected, wired, outbound, backendAtConnect>>

\* One data handler shared by every handle: the socket of one connection
\* receives whatever any process writes.
DataHandlerShared(c) == CHOOSE d \in Conns : \A e \in Conns : d <= e

\* index.js:160-162  the data handler given to the handle of connection c
\* emits on the `socket` of the same invocation of the connection handler;
\* each handle keeps its own handler (index.js:46-64,
\* pty-wsl-fallback.js:31, 53-55).
DataHandlerOf(c) == c

\* An exit listener that also emits a notice for a native-pty handle.
EmitsExitNoticeAlways(kind) == TRUE

\* pty-wsl-fallback.js:46-50, index.js:55-59  only the pipe-based handles
\* have an exit listener; index.js installs none on a node-pty handle.
EmitsExitNotice(kind) == PipeBased(kind)

\* The runtime dispatches the child's 'exit' event.  The pipe-based handles
\* pass an exit notice to the data handler (pty-wsl-fallback.js:46-50,
\* index.js:55-59), which emits it on the socket (index.js:160-162).
ProcessExit(c) ==
    /\ MacroTask
    /\ handle[c] # "none"
    /\ ~procAlive[c]
    /\ ~exitSeen[c]
    /\ exitSeen' = [exitSeen EXCEPT ![c] = TRUE]
    /\ observed' = [observed EXCEPT ![c] = Append(@, "exit")]
    /\ outbound' = [outbound EXCEPT
                       ![DataHandlerOf(c)] =
                          IF EmitsExitNotice(handle[c]) /\ wired[c]
                            THEN Append(@, ExitNotice)
                            ELSE @]
    /\ origins' = [origins EXCEPT
                      ![DataHandlerOf(c)] =
                         IF EmitsExitNotice(handle[c]) /\ wired[c]
                           THEN @ \cup {c}
                           ELSE @]
    /\ UNCHANGED <<pipes, produced, received, stdin, dropped, apiVars,
                   envVars, pty, fallbackPty, terminalBackend, activePtys, pc,
                   settled, attempts, handle, procAlive, killVars, childError,
                   connected, wired, backendAtConnect>>

\* The queued 'error' event is emitted on an object without an 'error'
\* listener: the emit throws, nothing catches it, the process ends.
UnhandledErrorCrash ==
    /\ Running
    /\ childError # "none"
    /\ childError = "afterMicro" => NoMicrotask
    /\ service' = "died"
    /\ UNCHANGED <<ioVars, isWindows, probe, pty, fallbackPty, terminalBackend,
                   activePtys, pc, settled, attempts, handle, procAlive,
                   exitSeen, observed, killVars, childError, connected, wired, outbound,
                   backendAtConnect>>

Startup == StartupProbeOk \/ StartupFallback \/ StartupCrash

SpawnPtySync(c) ==
    \/ ConnectSpawnOk(c)
    \/ ConnectSpawnThrowsLoad(c)
    \/ ConnectSpawnThrowsPowerShell(c)
    \/ ConnectSpawnRethrows(c)

HandlerStep(c) ==
    \/ ImportDone(c)
    \/ FallbackSpawnOk(c)
    \/ FallbackSpawnThrows(c)
    \/ SessionRegistered(c)
    \/ ConnectionFailed(c)

Next ==
    \/ Startup
    \/ \E c \in Conns : SpawnPtySync(c)
    \/ \E c \in Conns : HandlerStep(c)
    \/ \E c \in Conns : Disconnect(c)
    \/ \E c \in Conns : ProcessDies(c)
    \/ \E c \in Conns : ProcessExit(c)
    \/ UnhandledErrorCrash

Spec == Init /\ [][Next]_vars

\* The event loop runs every queued continuation and every queued callback,
\* and every import completes.
FairSpec ==
    /\ Spec
    /\ \A c \in Conns : WF_vars(HandlerStep(c))
    /\ WF_vars(UnhandledErrorCrash)

(***************************************************************************)
(* Open sessions: process output, client input and the handle interface.   *)
(* The sessions start as the connection handlers above leave them.         *)
(***************************************************************************)

RECURSIVE Sum(_, _)
Sum(f, S) ==
    IF S = {} THEN 0
    ELSE LET x == CHOOSE y \in S : TRUE IN f[x] + Sum(f, S \ {x})

TotalChunks == Sum(produced, Conns)
TotalInputs == Sum([c \in Conns |-> Len(received[c]) + dropped[c]], Conns)
TotalKills == Sum(killCalls, Conns)

\* The streams a handle of the given kind forwards (pty-wsl-fallback.js:34,
\* 40; index.js:53-54); node-pty has the single stream of its onData.
Streams(kind) == IF PipeBased(kind) THEN {"stdout", "stderr"} ELSE {"pty"}

\* The child writes a chunk to one of its output streams.
ProcessOutput(c, s) ==
    /\ Running
    /\ procAlive[c]
    /\ s \in Streams(handle[c])
    /\ TotalChunks < MaxChunks
    /\ produced' = [produced EXCEPT ![c] = @ + 1]
    /\ pipes' = [pipes EXCEPT ![c][s] = Append(@, produced[c] + 1)]
    /\ UNCHANGED <<envVars, pty, fallbackPty, terminalBackend, activePtys, pc,
                   settled, attempts, handle, procAlive, exitSeen, observed,
                   killVars, childError, connected, wired, outbound,
                   backendAtConnect, received, stdin, dropped, apiVars,
                   origins>>

\* A 'data' listener that hands every chunk to the data handler twice.
DeliverDataTwice(c, s) ==
    /\ MacroTask
    /\ pipes[c][s] # << >>
    /\ pipes' = [pipes EXCEPT ![c][s] = Tail(@)]
    /\ outbound' = [outbound EXCEPT
                       ![c] = @ \o <<DataChunk(s, Head(pipes[c][s])),
                                      DataChunk(s, Head(pipes[c][s]))>>]
    /\ origins' = [origins EXCEPT ![c] = @ \cup {c}]
    /\ UNCHANGED <<envVars, pty, fallbackPty, terminalBackend, activePtys, pc,
                   settled, attempts, handle, procAlive, exitSeen, observed,
                   killVars, childError, connected, wired, backendAtConnect,
                   produced, received, stdin, dropped, apiVars>>

\* The runtime dispatches a 'data' event of a stream: the listener passes
\* the chunk to the data handler if one is set (pty-wsl-fallback.js:34-44,
\* index.js:47-54), and that emits it on the socket (index.js:160-162).
\* The streams are read independently of the child's 'exit' event, which
\* the runtime may dispatch while they still hold data.
DeliverData(c, s) ==
    /\ MacroTask
    /\ pipes[c][s] # << >>
    /\ pipes' = [pipes EXCEPT ![c][s] = Tail(@)]
    /\ outbound' = [outbound EXCEPT
                       ![DataHandlerOf(c)] =
                          IF wired[c]
                            THEN Append(@, DataChunk(s, Head(pipes[c][s])))
                            ELSE @]
    /\ origins' = [origins EXCEPT
                      ![DataHandlerOf(c)] = IF wired[c] THEN @ \cup {c} ELSE @]
    /\ UNCHANGED <<envVars, pty, fallbackPty, terminalBackend, activePtys, pc,
                   settled, attempts, handle, procAlive, exitSeen, observed,
                   killVars, childError, connected, wired, backendAtConnect,
                   produced, received, stdin, dropped, apiVars>>

\* index.js:165  `if (data)`: the empty string is falsy, every Buffer truthy.
Truthy(d) == d.buf \/ d.bytes # ""

\* Buffer.prototype.toString(): UTF-8 decoding, which replaces every invalid
\* sequence by U+FFFD; the result is named by its UTF-8 encoding, which is
\* what stdin.write(string) puts into the pipe.
Utf8Decode(bytes) == IF bytes = "ff" THEN "efbfbd" ELSE bytes

\* index.js:166  `Buffer.isBuffer(data) ? data.toString() : data`.
ToText(d) == IF d.buf THEN Utf8Decode(d.bytes) ELSE d.bytes

\* child.stdin.writable: the runtime destroys the child's stdin when it
\* dispatches the child's 'exit' event, not when the child ends.
Writable(c) == ~exitSeen[c]

\* write() that puts the data in front of what stdin already holds.
WritePrepends(c, text) ==
    IF handle[c] = "none"
      THEN /\ childError' = "tick"
           /\ UNCHANGED stdin
    ELSE IF ~procAlive[c] \/ ~Writable(c)
      THEN UNCHANGED <<stdin, childError>>
    ELSE /\ stdin' = [stdin EXCEPT ![c] = <<text>> \o @]
         /\ UNCHANGED childError

\* pty-wsl-fallback.js:57-61, index.js:65-69  write(): stdin.write if stdin
\* is writable.  Writing into the pipe of a child that has ended fails with
\* EPIPE; the stream emits 'error' on the next tick and stdin has no 'error'
\* listener.  A node-pty handle takes the data while its process runs.
\* Without a handle (ptyProcess still undefined) the call is a TypeError.
Write(c, text) ==
    IF handle[c] = "none"
      THEN /\ childError' = "tick"
           /\ UNCHANGED stdin
    ELSE IF PipeBased(handle[c])
      THEN IF Writable(c)
             THEN IF procAlive[c]
                    THEN /\ stdin' = [stdin EXCEPT ![c] = Append(@, text)]
                         /\ UNCHANGED childError
                    ELSE /\ childError' = "tick"
                         /\ UNCHANGED stdin
             ELSE UNCHANGED <<stdin, childError>>
      ELSE /\ stdin' = [stdin EXCEPT
                           ![c] = IF procAlive[c] THEN Append(@, text) ELSE @]
           /\ UNCHANGED childError

\* The listener runs for packets that arrive after the disconnect too.
DeliveredAfterDisconnect(c) == wired[c]

\* The listener is installed before `await spawnPty()`.
DeliveredEarly(c) == connected[c]

\* index.js:164  socket.on('terminal.input', ...): the listener exists once
\* the handler has installed it, and the socket passes it the events of a
\* connected socket only; a packet for a socket without the listener, or
\* for a disconnected socket, is discarded.
Delivered(c) == connected[c] /\ wired[c]

\* A 'terminal.input' packet of an accepted connection reaches the server:
\* index.js:164-168 runs if the packet is delivered to the listener.
Input(c, d) ==
    /\ MacroTask
    /\ pc[c] # "idle"
    /\ TotalInputs < MaxInputs
    /\ IF Delivered(c)
         THEN /\ received' = [received EXCEPT ![c] = Append(@, d)]
              /\ UNCHANGED dropped
              /\ IF Truthy(d)
                   THEN Write(c, ToText(d))
                   ELSE UNCHANGED <<stdin, childError>>
         ELSE /\ dropped' = [dropped EXCEPT ![c] = @ + 1]
              /\ UNCHANGED <<received, stdin, childError>>
    /\ UNCHANGED <<envVars, pty, fallbackPty, terminalBackend, activePtys, pc,
                   settled, attempts, handle, procAlive, exitSeen, observed,
                   killVars, connected, wired, outbound, backendAtConnect,
                   pipes, produced, apiVars, origins>>

\* A caller of the handle interface calls kill() (the service itself calls
\* it once per session, in the disconnect listener).
HandleKill(h) ==
    /\ MacroTask
    /\ handle[h] # "none"
    /\ TotalKills < MaxKills
    /\ Kill(h)
    /\ UNCHANGED <<ioVars, envVars, pty, fallbackPty, terminalBackend,
                   activePtys, pc, settled, attempts, handle, procAlive,
                   exitSeen, observed, childError, connected, wired,
                   outbound, backendAtConnect>>

\* How the sessions were opened: every one on node-pty; every one on the
\* WSL fallback after a failed probe; or, after a failed probe, the first
\* one through createPowerShellFallback and the later ones on the WSL
\* fallback again (index.js:99 with the backend state left at
\* 'powershell-child').
SessionShapes == {"native", "compat", "mixed"}

KindIn(shape, c) ==
    IF shape = "native" THEN NodePty
    ELSE IF shape = "mixed" /\ c = 1 THEN PowerShellChild
    ELSE WslFallback

OpenedAs(shape, open) ==
    /\ isWindows \in (IF shape = "native" THEN BOOLEAN ELSE {TRUE})
    /\ probe = IF shape = "native" THEN "ok" ELSE "failed"
    /\ service = "listening"
    /\ pty = IF shape = "native" THEN NodePty ELSE WslFallback
    /\ fallbackPty = (shape # "native")
    /\ terminalBackend = IF shape = "native" THEN NodePty
                         ELSE IF shape = "compat" THEN WslFallback
                         ELSE PowerShellChild
    /\ activePtys = [c \in open |-> c]
    /\ pc = [c \in Conns |-> IF c \in open THEN "open" ELSE "idle"]
    /\ settled = [c \in Conns |->
                     IF c \in open THEN "resolved" ELSE "pending"]
    /\ attempts = [c \in Conns |->
                      IF c \notin open THEN << >>
                      ELSE IF KindIn(shape, c) = PowerShellChild
                        THEN <<WslFallback, PowerShellChild>>
                        ELSE <<KindIn(shape, c)>>]
    /\ handle = [c \in Conns |->
                    IF c \in open THEN KindIn(shape, c) ELSE "none"]
    /\ procAlive = [c \in Conns |-> c \in open]
    /\ exitSeen = [c \in Conns |-> FALSE]
    /\ observed = [c \in Conns |-> << >>]
    /\ killed = [c \in Conns |-> FALSE]
    /\ killCalls = [c \in Conns |-> 0]
    /\ signals = [c \in Conns |-> 0]
    /\ childError = "none"
    /\ connected = [c \in Conns |-> c \in open]
    /\ wired = [c \in Conns |-> c \in open]
    /\ outbound = [c \in Conns |-> << >>]
    /\ backendAtConnect = [c \in Conns |->
                              IF c \notin open THEN "none"
                              ELSE IF shape = "native" THEN NodePty
                              ELSE IF shape = "mixed" /\ c > 1
                                THEN PowerShellChild
                              ELSE WslFallback]
    /\ pipes = [c \in Conns |-> [s \in AllStreams |-> << >>]]
    /\ produced = [c \in Conns |-> 0]
    /\ received = [c \in Conns |-> << >>]
    /\ stdin = [c \in Conns |-> << >>]
    /\ dropped = [c \in Conns |-> 0]
    /\ healthReplies = {}
    /\ httpLog = << >>
    /\ retry = IdleRetry
    /\ origins = [c \in Conns |-> {}]
    /\ killThrew = [c \in Conns |-> FALSE]
    /\ gateway = [c \in Conns |-> IdleSocket]
    /\ ws = IdleWs

\* Every connection of the run has its session open.
SessionInit == \E shape \in SessionShapes : OpenedAs(shape, Conns)

\* The first connection has its session open, no other has connected yet.
FirstSessionInit == \E shape \in SessionShapes : OpenedAs(shape, {1})

\* The three sides of an open session touch disjoint parts of the state
\* (the output pipes and the outbound channel; the input events and stdin;
\* the kill flags), so each is run with the life of the sessions alone.

OutputNext ==
    \/ \E c \in Conns, s \in AllStreams : ProcessOutput(c, s)
    \/ \E c \in Conns, s \in AllStreams : DeliverData(c, s)
    \/ \E c \in Conns : Disconnect(c)
    \/ \E c \in Conns : ProcessDies(c)
    \/ \E c \in Conns : ProcessExit(c)

\* Open sessions whose processes write output.
OutputSpec == SessionInit /\ [][OutputNext]_vars

\* One open session whose process writes output; the runtime reads every
\* stream until it is drained.
FairOutputSpec ==
    /\ FirstSessionInit
    /\ [][OutputNext]_vars
    /\ \A c \in Conns, s \in AllStreams : WF_vars(DeliverData(c, s))

InputNext ==
    \/ \E c \in Conns, d \in Payloads : Input(c, d)
    \/ \E c \in Conns : Disconnect(c)
    \/ \E c \in Conns : ProcessDies(c)
    \/ \E c \in Conns : ProcessExit(c)
    \/ UnhandledErrorCrash

\* An open session whose client sends input.
InputSpec == FirstSessionInit /\ [][InputNext]_vars

\* Every connection waits in `await loadFallback()` for the import of
\* pty-wsl-fallback.js: node-pty was imported, its spawn threw for each of
\* them before the import completed (index.js:99, 107-109, 26-27).
ImportingInit ==
    /\ isWindows \in BOOLEAN
    /\ probe = "ok"
    /\ service = "listening"
    /\ pty = NodePty
    /\ fallbackPty = FALSE
    /\ terminalBackend = NodePty
    /\ activePtys = << >>
    /\ pc = [c \in Conns |-> "import"]
    /\ settled = [c \in Conns |-> "pending"]
    /\ attempts = [c \in Conns |-> <<NodePty>>]
    /\ handle = [c \in Conns |-> "none"]
    /\ procAlive = [c \in Conns |-> FALSE]
    /\ exitSeen = [c \in Conns |-> FALSE]
    /\ observed = [c \in Conns |-> << >>]
    /\ killed = [c \in Conns |-> FALSE]
    /\ killCalls = [c \in Conns |-> 0]
    /\ signals = [c \in Conns |-> 0]
    /\ childError = "none"
    /\ connected = [c \in Conns |-> TRUE]
    /\ wired = [c \in Conns |-> FALSE]
    /\ outbound = [c \in Conns |-> << >>]
    /\ backendAtConnect = [c \in Conns |-> NodePty]
    /\ pipes = [c \in Conns |-> [s \in AllStreams |-> << >>]]
    /\ produced = [c \in Conns |-> 0]
    /\ received = [c \in Conns |-> << >>]
    /\ stdin = [c \in Conns |-> << >>]
    /\ dropped = [c \in Conns |-> 0]
    /\ healthReplies = {}
    /\ httpLog = << >>
    /\ retry = IdleRetry
    /\ origins = [c \in Conns |-> {}]
    /\ killThrew = [c \in Conns |-> FALSE]
    /\ gateway = [c \in Conns |-> IdleSocket]
    /\ ws = IdleWs

EarlyInputNext ==
    \/ \E c \in Conns : HandlerStep(c)
    \/ \E c \in Conns, d \in Payloads : Input(c, d)
    \/ \E c \in Conns : Disconnect(c)
    \/ UnhandledErrorCrash

\* Connections whose spawn is in flight, and whose clients already send.
EarlyInputSpec == ImportingInit /\ [][EarlyInputNext]_vars

\* index.js:186-190  the body GET /health answers with; the timestamp is
\* left out.
HealthReply == [status |-> "ok", service |-> "Project Swivel PTY engine"]

\* index.js:185-191  app.get('/health').
Health ==
    /\ MacroTask
    /\ healthReplies' = healthReplies \cup {HealthReply}
    /\ UNCHANGED <<envVars, pty, fallbackPty, terminalBackend, activePtys, pc,
                   settled, attempts, handle, procAlive, exitSeen, observed,
                   killVars, childError, connected, wired, outbound,
                   backendAtConnect, pipes, produced, received, stdin,
                   dropped, httpLog, retry, moreVars, origins>>

HealthNext ==
    \/ Health
    \/ \E c \in Conns : HandlerStep(c)
    \/ \E c \in Conns : Disconnect(c)
    \/ UnhandledErrorCrash

\* The health probe queried while connections move the backend state.
HealthSpec == ImportingInit /\ [][HealthNext]_vars

HandleNext ==
    \/ \E h \in Conns : HandleKill(h)
    \/ \E c \in Conns : Disconnect(c)
    \/ \E c \in Conns : ProcessDies(c)
    \/ \E c \in Conns : ProcessExit(c)

\* The life of the handles of open sessions, with kill() also called from
\* outside the disconnect listener.
HandleSpec == SessionInit /\ [][HandleNext]_vars

\* Two connections have their sessions open: both on node-pty, or one
\* through createPowerShellFallback and one on the WSL fallback.
TwoSessionsInit == \E shape \in {"native", "mixed"} : OpenedAs(shape, {1, 2})

\* The input of these sessions is text.
TextPayloads == {d \in Payloads : ~d.buf /\ d.bytes # ""}

CrossNext ==
    \/ \E c \in Conns, s \in AllStreams : ProcessOutput(c, s)
    \/ \E c \in Conns, s \in AllStreams : DeliverData(c, s)
    \/ \E c \in Conns, d \in TextPayloads : Input(c, d)
    \/ \E c \in Conns : Disconnect(c)
    \/ \E c \in Conns : ProcessDies(c)
    \/ \E c \in Conns : ProcessExit(c)
    \/ UnhandledErrorCrash

\* Two open sessions with output, input and teardown interleaved.
CrossSpec == TwoSessionsInit /\ [][CrossNext]_vars

TeardownNext ==
    \/ \E c \in Conns : Disconnect(c)
    \/ \E c \in Conns : DisconnectKillThrows(c)
    \/ \E c \in Conns : ProcessDies(c)
    \/ \E c \in Conns : ProcessExit(c)

\* Open sessions whose clients go away, with a kill() that may throw.
TeardownSpec == SessionInit /\ [][TeardownNext]_vars

(***************************************************************************)
(* server/app.js: the protected endpoints behind authenticateToken, and    *)
(* what APIManager.fetchData / sendCommand make of the answer.             *)
(***************************************************************************)

\* The Authorization header of a request: absent, present without a second
\* word ("Bearer"), or "Bearer <token>" with a token that is valid, expired,
\* or invalid (bad signature, malformed).
AuthHeaders == {"absent", "noToken", "valid", "expired", "invalid"}

DataEndpoint == "GET /api/data"
CommandEndpoint == "POST /api/command"
RefreshEndpoint == "POST /api/auth/refresh"

\* app.js:192, 198, 210  the routes that name authenticateToken.
ProtectedEndpoints == {DataEndpoint, CommandEndpoint, RefreshEndpoint}

\* app.js:76-77  `authHeader && authHeader.split(' ')[1]`.
ExtractToken(h) == IF h \in {"absent", "noToken"} THEN "none" ELSE h

\* app.js:66-72  jwt.verify throws for an expired token as for any other
\* token it does not accept; both become null.
VerifyToken(t) == IF t = "valid" THEN "decoded" ELSE "null"

\* app.js:75-90  the status authenticateToken answers with, 0 when it calls
\* next().
AuthenticateToken(h) ==
    IF ExtractToken(h) = "none" THEN 401
    ELSE IF VerifyToken(ExtractToken(h)) = "null" THEN 403
    ELSE 0

\* app.js:192-233  the status of the route handler itself; only
\* POST /api/command validates its body (app.js:211-216).
HandlerStatus(e, bodyOk) ==
    IF e = CommandEndpoint /\ ~bodyOk THEN 400 ELSE 200

\* APIManager.swift:286-292, 309-315  what fetchData and sendCommand throw
\* for a status.
ClientError(status) ==
    IF status = 401 THEN "tokenExpired"
    ELSE IF status = 200 THEN "none"
    ELSE "serverError"

\* A request to a protected endpoint is answered (below the rate limit of
\* app.js:43-49).  The client methods exist for two of the endpoints.
Request(e, h, bodyOk) ==
    /\ Len(httpLog) < MaxRequests
    /\ LET auth == AuthenticateToken(h)
           status == IF auth = 0 THEN HandlerStatus(e, bodyOk) ELSE auth
       IN httpLog' = Append(httpLog,
                        [endpoint |-> e,
                         header |-> h,
                         status |-> status,
                         handled |-> (auth = 0),
                         client |-> IF e = RefreshEndpoint THEN "none"
                                    ELSE ClientError(status)])
    /\ UNCHANGED <<envVars, pty, fallbackPty, terminalBackend, activePtys, pc,
                   settled, attempts, handle, procAlive, exitSeen, observed,
                   killVars, childError, connected, wired, outbound,
                   backendAtConnect, pipes, produced, received, stdin,
                   dropped, healthReplies, retry, moreVars, origins>>

AuthNext ==
    \E e \in ProtectedEndpoints, h \in AuthHeaders :
       \E bodyOk \in (IF e = CommandEndpoint THEN BOOLEAN ELSE {TRUE}) :
          Request(e, h, bodyOk)

\* app.js answering requests to its protected endpoints.
AuthSpec == Init /\ [][AuthNext]_vars

(***************************************************************************)
(* server/app.js: the realtime gateway (Socket.IO) and its middleware.     *)
(***************************************************************************)

\* socket.handshake.auth.token: absent, the empty string, a token that
\* verifies, an expired one, one with a bad signature or malformed, and a
\* truthy value that is not a string.
HandshakeTokens ==
    {"absent", "empty", "valid", "expired", "invalid", "nonString"}

\* app.js:262  `!token`.
TokenMissing(t) == t \in {"absent", "empty"}

GatewayUnchanged ==
    UNCHANGED <<envVars, pty, fallbackPty, terminalBackend, activePtys, pc,
                settled, attempts, handle, procAlive, exitSeen, observed,
                killVars, childError, connected, wired, outbound,
                backendAtConnect, pipes, produced, received, stdin,
                dropped, healthReplies, httpLog, retry, origins, killThrew,
                ws>>

\* A middleware that only looks whether a token is there.
GatewayVerdictLax(t) ==
    IF TokenMissing(t) THEN "Authentication required" ELSE "next"

\* app.js:259-273  what the middleware passes to next(): an Error, or
\* nothing.  verifyToken (app.js:66-72) answers null for whatever jwt.verify
\* throws on, a value that is not a string included.
GatewayVerdict(t) ==
    IF TokenMissing(t) THEN "Authentication required"
    ELSE IF VerifyToken(t) = "null" THEN "Invalid token"
    ELSE "next"

\* A CONNECT packet for the main namespace arrives: app.js:259-273 runs.
Handshake(s, t) ==
    /\ gateway[s].stage = "none"
    /\ gateway' = [gateway EXCEPT
                      ![s].token = t,
                      ![s].stage = IF GatewayVerdict(t) = "next"
                                     THEN "admitted" ELSE "refused"]
    /\ GatewayUnchanged

\* After next(err) the namespace answers with a connect error; the socket
\* never reaches the connection handler.
GatewayRejects(s) ==
    /\ gateway[s].stage = "refused"
    /\ gateway' = [gateway EXCEPT ![s].stage = "rejected"]
    /\ GatewayUnchanged

\* app.js:276-315  the connection handler: room join, welcome message,
\* three listeners.
GatewayConnection(s) ==
    /\ gateway[s].stage = "admitted"
    /\ gateway' = [gateway EXCEPT
                      ![s].stage = "connected",
                      ![s].rooms = {"user"},
                      ![s].welcomed = TRUE,
                      ![s].handlers =
                         {"message", "request_status", "disconnect"}]
    /\ GatewayUnchanged

\* The client goes away: before the connection handler ran (the namespace
\* then drops the socket), or later (the socket leaves its rooms and
\* app.js:312-314 logs).
GatewayClientCloses(s) ==
    /\ gateway[s].stage \in {"admitted", "connected"}
    /\ gateway' = [gateway EXCEPT
                      ![s].stage = IF gateway[s].stage = "admitted"
                                     THEN "closed" ELSE "disconnected",
                      ![s].rooms = {}]
    /\ GatewayUnchanged

GatewayNext ==
    \/ \E s \in Conns, t \in HandshakeTokens : Handshake(s, t)
    \/ \E s \in Conns : GatewayRejects(s)
    \/ \E s \in Conns : GatewayConnection(s)
    \/ \E s \in Conns : GatewayClientCloses(s)

\* The gateway of app.js taking handshakes.
GatewaySpec == Init /\ [][GatewayNext]_vars

(***************************************************************************)
(* ios_templates/APIManager.swift: one call of withRetry.                  *)
(***************************************************************************)

\* What the operation can throw: the two authentication errors of APIError
\* and three others.
AuthErrors == {"unauthorized", "tokenExpired"}
OtherErrors == {"serverError", "networkError", "decodingError"}

\* What the operation can return.
Results == {"r1", "r2"}

RetryUnchanged ==
    UNCHANGED <<envVars, pty, fallbackPty, terminalBackend, activePtys, pc,
                settled, attempts, handle, procAlive, exitSeen, observed,
                killVars, childError, connected, wired, outbound,
                backendAtConnect, pipes, produced, received, stdin,
                dropped, healthReplies, httpLog, moreVars, origins>>

\* APIManager.swift:322-327  withRetry is called; the loop starts at 1.
\* fits: delay * attempt * 1e9 is a value UInt64(...) can hold for every
\* attempt (the default delay of 1.0 is one).
RetryCall(m, fits) ==
    /\ retry.status = "idle"
    /\ retry' = [retry EXCEPT !.status = "calling", !.maxAttempts = m,
                              !.delayFits = fits, !.attempt = 1]
    /\ RetryUnchanged

\* APIManager.swift:329  `return try await operation()`.
OperationReturns(v) ==
    /\ retry.status = "calling"
    /\ retry' = [retry EXCEPT !.status = "returned", !.result = v,
                              !.outcomes = Append(@, v)]
    /\ RetryUnchanged

\* The catch that goes on to the next attempt for every error.
OperationThrowsRetriesAll(e) ==
    /\ retry.status = "calling"
    /\ retry' =
          IF retry.attempt < retry.maxAttempts
            THEN [retry EXCEPT !.outcomes = Append(@, e),
                               !.status = IF retry.delayFits THEN "sleeping"
                                          ELSE "trapped"]
            ELSE [retry EXCEPT !.outcomes = Append(@, e),
                               !.status = "threw", !.thrown = e]
    /\ RetryUnchanged

\* APIManager.swift:330-348  the operation throws: the two authentication
\* errors are rethrown at once; otherwise the loop sleeps before the next
\* attempt, or ends after the last one and lastError is thrown.  UInt64(x)
\* of line 343 traps when x is negative or too large, before any sleep.
OperationThrows(e) ==
    /\ retry.status = "calling"
    /\ retry' =
          IF e \in AuthErrors
            THEN [retry EXCEPT !.outcomes = Append(@, e),
                               !.status = "threw", !.thrown = e]
          ELSE IF retry.attempt < retry.maxAttempts
            THEN [retry EXCEPT !.outcomes = Append(@, e),
                               !.status = IF retry.delayFits THEN "sleeping"
                                          ELSE "trapped"]
            ELSE [retry EXCEPT !.outcomes = Append(@, e),
                               !.status = "threw", !.thrown = e]
    /\ RetryUnchanged

\* APIManager.swift:343  Task.sleep returns: next iteration.
SleepReturns ==
    /\ retry.status = "sleeping"
    /\ retry' = [retry EXCEPT !.status = "calling", !.attempt = @ + 1]
    /\ RetryUnchanged

\* APIManager.swift:343  `try await Task.sleep(...)` throws CancellationError
\* when the task is cancelled; the `try` sits in the catch block, so the
\* error leaves withRetry.
SleepThrows ==
    /\ retry.status = "sleeping"
    /\ retry' = [retry EXCEPT !.status = "threw", !.thrown = "cancelled"]
    /\ RetryUnchanged

OperationCompletes ==
    \/ \E v \in Results : OperationReturns(v)
    \/ \E e \in AuthErrors \cup OtherErrors : OperationThrows(e)

SleepCompletes == SleepReturns \/ SleepThrows

RetryNext ==
    \/ \E m \in 1..MaxAttempts, fits \in BOOLEAN : RetryCall(m, fits)
    \/ OperationCompletes
    \/ SleepCompletes

\* One call of withRetry; the operation and the sleep both complete.
RetrySpec ==
    /\ Init
    /\ [][RetryNext]_vars
    /\ WF_vars(OperationCompletes)
    /\ WF_vars(SleepCompletes)

(***************************************************************************)
(* ios_templates/WebSocketManager.swift: the shared manager.  ws.task is   *)
(* webSocketTask; opening, receiving and pinging hold the tasks whose      *)
(* didOpen callback, receive completion and ping completion are still to   *)
(* come; timers counts the scheduled reconnect blocks; mainQueue holds the *)
(* DispatchQueue.main.async blocks not yet run.  awaiting and              *)
(* userDisconnected record what the application last saw and did.          *)
(***************************************************************************)

WsUnchanged ==
    UNCHANGED <<envVars, pty, fallbackPty, terminalBackend, activePtys, pc,
                settled, attempts, handle, procAlive, exitSeen, observed,
                killVars, childError, connected, wired, outbound,
                backendAtConnect, pipes, produced, received, stdin,
                dropped, healthReplies, httpLog, retry, origins, killThrew,
                gateway>>

\* WebSocketManager.swift:72-79  disconnect(): the ping timer is stopped,
\* the task cancelled and forgotten, isConnected cleared.
DisconnectBody(w) ==
    [w EXCEPT !.pingTimer = FALSE,
              !.cancelled = IF w.task # 0 THEN @ \cup {w.task} ELSE @,
              !.opening = @ \ {w.task},
              !.task = 0,
              !.isConnected = FALSE]

\* WebSocketManager.swift:47-70  connect(): nothing without a token;
\* otherwise disconnect(), a new task, the first receive and the ping
\* timer.
ConnectBody(w) ==
    IF ~w.hasToken THEN w
    ELSE [DisconnectBody(w) EXCEPT
             !.task = w.opened + 1,
             !.opened = w.opened + 1,
             !.opening = (w.opening \ {w.task}) \cup {w.opened + 1},
             !.receiving = @ \cup {w.opened + 1},
             !.pingTimer = TRUE]

\* WebSocketManager.swift:161-175  handleError(): one block for the main
\* queue, one reconnect block three seconds later; webSocketTask is left
\* as it is.
HandleErrorBody(w) ==
    [w EXCEPT !.mainQueue = Append(@, "down"), !.timers = @ + 1]

\* The error is one of the connection the manager holds, after it opened.
OnOpenConnection(id) == id = ws.task /\ id \notin ws.opening

\* APIManager.swift:195, 228  login or register stores a token.
AppLogin ==
    /\ ~ws.hasToken
    /\ ws' = [ws EXCEPT !.hasToken = TRUE]
    /\ WsUnchanged

\* APIManager.swift:239-243  logout() deletes the token.
AppLogout ==
    /\ ws.hasToken
    /\ ws' = [ws EXCEPT !.hasToken = FALSE]
    /\ WsUnchanged

\* The application calls connect().
AppConnect ==
    /\ ws.hasToken => ws.opened < MaxTasks
    /\ ws' = [ConnectBody(ws) EXCEPT !.awaiting = FALSE,
                                     !.userDisconnected = FALSE]
    /\ WsUnchanged

\* The application calls disconnect().
AppDisconnect ==
    /\ ws' = [DisconnectBody(ws) EXCEPT !.awaiting = FALSE,
                                        !.userDisconnected = TRUE]
    /\ WsUnchanged

\* WebSocketManager.swift:250-258  didOpenWithProtocol.
DidOpen(id) ==
    /\ id \in ws.opening
    /\ ws' = [ws EXCEPT !.opening = @ \ {id},
                        !.mainQueue = Append(@, "up")]
    /\ WsUnchanged

\* WebSocketManager.swift:260-270  didCloseWith: the server closed.
DidClose(id) ==
    /\ id \in 1..ws.opened
    /\ id \notin ws.opening \cup ws.cancelled \cup ws.closed
    /\ ws' = [ws EXCEPT !.closed = @ \cup {id},
                        !.mainQueue = Append(@, "down")]
    /\ WsUnchanged

\* WebSocketManager.swift:84-103, 112-148  a receive completes with a
\* message: lastMessage is set on the main queue, a welcome also marks the
\* manager connected, and the next receive is issued.
ReceiveMessage(id, kind) ==
    /\ id \in ws.receiving
    /\ id \notin ws.opening \cup ws.cancelled \cup ws.closed
    /\ ws.messages < MaxMessages
    /\ ws' = [ws EXCEPT
                 !.messages = @ + 1,
                 !.mainQueue = IF kind = "welcome"
                                 THEN @ \o <<"text", "up">>
                                 ELSE Append(@, "text")]
    /\ WsUnchanged

\* WebSocketManager.swift:105-108  a receive completes with an error (the
\* network failed, the server closed, or the task was cancelled): no
\* further receive is issued.
ReceiveFails(id) ==
    /\ id \in ws.receiving
    /\ ws' = [HandleErrorBody(ws) EXCEPT
                 !.receiving = @ \ {id},
                 !.awaiting = @ \/ OnOpenConnection(id)]
    /\ WsUnchanged

\* WebSocketManager.swift:225-244  the ping timer fires: sendPing on the
\* current task.
PingTimerFires ==
    /\ ws.pingTimer
    /\ ws.task # 0
    /\ ws.task \notin ws.pinging
    /\ ws.pingsSent < MaxPings
    /\ ws' = [ws EXCEPT !.pinging = @ \cup {ws.task}, !.pingsSent = @ + 1]
    /\ WsUnchanged

\* WebSocketManager.swift:238-243  the pong handler: nothing on success,
\* handleError on failure.  A cancelled or closed task's ping fails.
PingCompletes(id, ok) ==
    /\ id \in ws.pinging
    /\ ok => id \notin ws.cancelled \cup ws.closed
    /\ ws' = IF ok
               THEN [ws EXCEPT !.pinging = @ \ {id}]
               ELSE [HandleErrorBody(ws) EXCEPT
                        !.pinging = @ \ {id},
                        !.awaiting = @ \/ OnOpenConnection(id)]
    /\ WsUnchanged

\* WebSocketManager.swift:169-174  a reconnect block runs: connect() if
\* webSocketTask is nil.
ReconnectTimerFires ==
    /\ ws.timers > 0
    /\ (ws.task = 0 /\ ws.hasToken) => ws.opened < MaxTasks
    /\ ws' = IF ws.task = 0
               THEN [ConnectBody(ws) EXCEPT !.timers = @ - 1,
                                            !.awaiting = FALSE]
               ELSE [ws EXCEPT !.timers = @ - 1]
    /\ WsUnchanged

\* The main queue runs its next block.
MainQueueRuns ==
    /\ ws.mainQueue # << >>
    /\ ws' = [ws EXCEPT
                 !.mainQueue = Tail(@),
                 !.isConnected = IF Head(ws.mainQueue) = "up" THEN TRUE
                                 ELSE IF Head(ws.mainQueue) = "down" THEN FALSE
                                 ELSE @]
    /\ WsUnchanged

WsNext ==
    \/ AppLogin
    \/ AppLogout
    \/ AppConnect
    \/ AppDisconnect
    \/ \E id \in 1..MaxTasks : DidOpen(id)
    \/ \E id \in 1..MaxTasks : DidClose(id)
    \/ \E id \in 1..MaxTasks, kind \in {"welcome", "other"} :
          ReceiveMessage(id, kind)
    \/ \E id \in 1..MaxTasks : ReceiveFails(id)
    \/ PingTimerFires
    \/ \E id \in 1..MaxTasks, ok \in BOOLEAN : PingCompletes(id, ok)
    \/ ReconnectTimerFires
    \/ MainQueueRuns

\* The manager in an application that may call connect() and disconnect()
\* at any time; scheduled blocks do run.
WsSpec ==
    /\ Init
    /\ [][WsNext]_vars
    /\ WF_vars(ReconnectTimerFires)
    /\ WF_vars(MainQueueRuns)

(***************************************************************************)
(* Properties.                                                             *)
(***************************************************************************)

Started(c) == pc[c] # "idle"
InFlight(c) == pc[c] \in {"import", "afterLoad", "afterSpawn"}
Finished(c) == pc[c] \in {"open", "failed", "closed"}
Last(s) == s[Len(s)]
Attempted(c, s) == \E i \in 1..Len(attempts[c]) : attempts[c][i] = s

\* C1: once terminalBackend has left 'node-pty' it never holds 'node-pty'
\* again, whatever connection, spawn-failure and disconnect events follow.
C1_NeverBackToNodePty ==
    [][terminalBackend # NodePty => terminalBackend' # NodePty]_vars

C1_Witness ==
    /\ probe = "ok"
    /\ terminalBackend # NodePty
    /\ \E c, d \in Conns :
          /\ backendAtConnect[c] = NodePty /\ pc[c] = "closed"
          /\ backendAtConnect[d] \notin {"none", NodePty} /\ Finished(d)

\* C2: the backend state never moves to a higher-fidelity strategy, also
\* when several handlers run spawnPty and interleave at its await points.
C2_NeverPromotes ==
    [][Rank(terminalBackend') >= Rank(terminalBackend)]_vars

\* C3: the strategies are attempted strictly in the order native-pty,
\* compatibility-shell, direct-spawn, and spawnPty rejects only after the
\* failure of the third one, direct-spawn, never before it.
C3_OrderedExhaustion ==
    \A c \in Conns :
       /\ \A i \in 1..(Len(attempts[c]) - 1) :
             Rank(attempts[c][i + 1]) = Rank(attempts[c][i]) + 1
       /\ settled[c] = "rejected" => Last(attempts[c]) = PowerShellChild

\* C4: spawnPty makes at most 3 strategy spawn attempts for a connection and
\* every started handler gets its answer, a handle or a failure, as long as
\* the service process itself lives.
C4_BoundedTermination ==
    /\ [][\A c \in Conns : Len(attempts'[c]) <= Len(Strategies)]_vars
    /\ \A c \in Conns : InFlight(c) ~> (Finished(c) \/ service = "died")

C4_Witness ==
    \E c \in Conns : Finished(c) /\ Len(attempts[c]) = Len(Strategies)

\* C5: when the native-pty spawn throws for a connection, the backend state
\* is demoted and pty is the compatibility shell; a session obtained from the
\* compatibility shell holds a compatibility-shell handle; and every
\* connection accepted after the demotion makes its first attempt on the
\* compatibility shell, never on native-pty.
C5_DemotedForLaterConnections ==
    /\ \A c \in Conns :
          (Len(attempts[c]) >= 2 /\ attempts[c][1] = NodePty) =>
             /\ terminalBackend # NodePty
             /\ pty = WslFallback
             /\ attempts[c][2] = WslFallback
    /\ \A c \in Conns :
          (attempts[c] = <<NodePty, WslFallback>> /\ settled[c] = "resolved") =>
             /\ handle[c] = WslFallback
             /\ pc[c] = "open" => (c \in DOMAIN activePtys /\ activePtys[c] = c)
    /\ \A d \in Conns :
          (Started(d) /\ backendAtConnect[d] # NodePty) =>
             attempts[d][1] = WslFallback

C5_Witness ==
    \E c, d \in Conns :
       /\ c < d
       /\ attempts[c] = <<NodePty, WslFallback>>
       /\ pc[c] = "open"
       /\ handle[c] = WslFallback
       /\ backendAtConnect[d] = WslFallback
       /\ attempts[d][1] = WslFallback
       /\ Finished(d)

\* C6: the first spawn attempt of every connection uses exactly the strategy
\* terminalBackend names when the connection is accepted; once the state is
\* 'powershell-child' the compatibility shell is not attempted again.
C6_FirstAttemptIsBackend ==
    \A c \in Conns : Started(c) => attempts[c][1] = backendAtConnect[c]

C10_OnlyExhaustionReachesConnection ==
    \A c \in Conns :
       pc[c] = "failed" =>
          \A i \in Rank(backendAtConnect[c])..Len(Strategies) :
             Attempted(c, Strategies[i])

\* C11 as stated: once all strategies have failed for a connection (spawnPty
\* rejected) the service is still running and goes on handling connections.
C11_ExhaustionNotFatal ==
    (\E c \in Conns : settled[c] = "rejected") => service = "listening"

\* C12: a registry entry, once set, is never bound to another handle; an
\* entry appears only when its own handler registers its own handle, so it
\* is never re-created after a teardown; the handle of a connection never
\* changes and no process is started for a connection that already has one.
C12_BindingImmutable ==
    [][\A c \in Conns :
          /\ (c \in DOMAIN activePtys /\ c \in DOMAIN activePtys') =>
                activePtys'[c] = activePtys[c]
          /\ (c \notin DOMAIN activePtys /\ c \in DOMAIN activePtys') =>
                (pc[c] = "afterSpawn" /\ activePtys'[c] = c)
          /\ handle[c] # "none" => handle'[c] = handle[c]
          /\ (procAlive'[c] /\ ~procAlive[c]) => handle[c] = "none"]_vars

C12_Witness ==
    \E c, d \in Conns :
       /\ c # d
       /\ c \in DOMAIN activePtys /\ exitSeen[c] /\ pc[c] = "open"
       /\ d \in DOMAIN activePtys /\ activePtys[d] = d

\* C13: the step that handles the disconnect of a connection with a registry
\* entry removes the entry and calls kill on its handle.
C13_DisconnectTearsDown ==
    [][\A c \in Conns :
          (c \in DOMAIN activePtys /\ connected[c] /\ ~connected'[c]) =>
             /\ c \notin DOMAIN activePtys'
             /\ killCalls'[activePtys[c]] = killCalls[activePtys[c]] + 1]_vars

C13_Witness ==
    \E c \in Conns :
       /\ pc[c] = "closed"
       /\ c \notin DOMAIN activePtys
       /\ killCalls[c] = 1
       /\ signals[c] = 1

\* C14: once the service has handled a connection's disconnect, exactly one
\* teardown has taken effect (the entry is gone, kill was called once), and
\* when it has handled both the disconnect and the process exit the
\* connection is in the same cleaned-up state whichever came first.
C14_TeardownOnce ==
    \A c \in Conns :
       /\ (\E i \in 1..Len(observed[c]) : observed[c][i] = "disconnect") =>
             /\ c \notin DOMAIN activePtys
             /\ killCalls[c] = 1
             /\ signals[c] <= 1
       /\ Len(observed[c]) = 2 =>
             /\ pc[c] = "closed"
             /\ c \notin DOMAIN activePtys
             /\ ~connected[c]
             /\ ~procAlive[c]
             /\ exitSeen[c]
             /\ killCalls[c] = 1

C14_Witness ==
    \E c, d \in Conns :
       /\ observed[c] = <<"exit", "disconnect">>
       /\ observed[d] = <<"disconnect", "exit">>

\* C15 as stated: no registry entry refers to a process whose exit the
\* service has handled; the exit itself removes the entry.
C15_ExitRemovesEntry ==
    \A c \in DOMAIN activePtys : ~exitSeen[activePtys[c]]

ExitNotices(c) ==
    Cardinality({i \in 1..Len(outbound[c]) : outbound[c][i] = ExitNotice})

\* C16 as stated: on every strategy, native-pty included, a process that
\* exits by itself leaves exactly one exit notice on the outbound channel,
\* and no channel ever carries more than one.
C16_ExactlyOneExitNotice ==
    \A c \in Conns :
       /\ ExitNotices(c) <= 1
       /\ (exitSeen[c] /\ signals[c] = 0) => ExitNotices(c) = 1

\* C18 as stated: a connection that is disconnected and whose handler has
\* finished has no registry entry and no process left running unsignalled,
\* also when it disconnected while its spawn was in flight.
C18_NoSessionForDisconnected ==
    \A c \in Conns :
       (Finished(c) /\ ~connected[c]) =>
          /\ c \notin DOMAIN activePtys
          /\ procAlive[c] => killed[c]

\* C17 as stated: on every outbound channel nothing of the process's output
\* follows the exit notice.
C17_ExitNoticeIsFinal ==
    \A c \in Conns :
       \A i, j \in 1..Len(outbound[c]) :
          (i < j /\ outbound[c][i] = ExitNotice) =>
             outbound[c][j].type # "data"

\* C19: a call of kill() on a pipe-based handle that is not the first one,
\* or that comes after the process has ended, signals nothing, changes
\* nothing of the process and queues no error.
C19_KillIdempotent ==
    [][\A h \in Conns :
          (/\ PipeBased(handle[h])
           /\ killCalls'[h] = killCalls[h] + 1
           /\ (killCalls[h] > 0 \/ ~procAlive[h])) =>
             /\ signals' = signals
             /\ killed' = killed
             /\ procAlive' = procAlive
             /\ childError' = childError
             /\ service' = service]_vars

C19_Witness ==
    \E h, g \in Conns :
       /\ PipeBased(handle[h]) /\ killCalls[h] = 2 /\ signals[h] = 1
       /\ PipeBased(handle[g]) /\ exitSeen[g] /\ killCalls[g] = 1
       /\ signals[g] = 0
       /\ service = "listening"

\* C20 as stated: an input event handled after the process has ended writes
\* nothing and raises nothing, wherever the exit event falls among the
\* input events.
C20_WriteAfterExitSilent ==
    [][\A c \in Conns :
          (~procAlive[c] /\ Len(received'[c]) = Len(received[c]) + 1) =>
             /\ stdin' = stdin
             /\ childError' = childError
             /\ service' = service]_vars

\* A 'terminal.input' packet for the connection reaches the server in this
\* step, whether or not a listener runs for it.
Arrives(c) ==
    Len(received'[c]) + dropped'[c] = Len(received[c]) + dropped[c] + 1

\* C21: an input packet that arrives for a connection after its teardown
\* reaches no listener: nothing is written to the handle, no error is
\* queued, and the registry and the kill flags stay as they are.
C21_InputAfterTeardownIsNoOp ==
    [][\A c \in Conns :
          (pc[c] = "closed" /\ Arrives(c)) =>
             /\ received' = received
             /\ stdin' = stdin
             /\ childError' = childError
             /\ service' = service
             /\ activePtys' = activePtys
             /\ killCalls' = killCalls
             /\ signals' = signals]_vars

C21_Witness ==
    \E c \in Conns :
       /\ pc[c] = "closed"
       /\ c \notin DOMAIN activePtys
       /\ dropped[c] > 0
       /\ received[c] # << >>
       /\ service = "listening"

\* What a sequence of handled input events puts into stdin: the texts of
\* the events, with the empty ones (which carry no byte) left out.
RECURSIVE Bytes(_)
Bytes(q) ==
    IF q = << >> THEN << >>
    ELSE (IF Head(q) = "" THEN << >> ELSE <<Head(q)>>) \o Bytes(Tail(q))

Texts(q) == [i \in 1..Len(q) |-> ToText(q[i])]

IsPrefix(p, q) == Len(p) <= Len(q) /\ SubSeq(q, 1, Len(p)) = p

\* C22: what has been written to a handle is, in the same order, what the
\* connection's handled input events carried; while the process runs
\* nothing of it is missing, and after it ended nothing is added out of
\* order.
C22_InputOrderPreserved ==
    \A c \in Conns :
       /\ IsPrefix(Bytes(stdin[c]), Bytes(Texts(received[c])))
       /\ procAlive[c] => Bytes(stdin[c]) = Bytes(Texts(received[c]))

C22_Witness ==
    \E c \in Conns :
       /\ Len(stdin[c]) = 2
       /\ stdin[c][1] # stdin[c][2]
       /\ stdin[c][1] # ""
       /\ stdin[c][2] # ""

\* C23 as stated: every input event handled for a connection whose process
\* runs issues exactly one write, of exactly the bytes received.
C23_InputVerbatim ==
    [][\A c \in Conns :
          (procAlive[c] /\ Len(received'[c]) = Len(received[c]) + 1) =>
             stdin'[c] = Append(stdin[c], Last(received'[c]).bytes)]_vars

\* C24: an input packet for a connection without a registry entry (its
\* spawn is in flight, or it failed) reaches no listener: nothing is
\* written or spawned, the registry and the backend state stay as they
\* are, and no error is queued.
C24_InputWithoutSessionIsNoOp ==
    [][\A c \in Conns :
          (c \notin DOMAIN activePtys /\ Arrives(c)) =>
             /\ received' = received
             /\ stdin' = stdin
             /\ handle' = handle
             /\ procAlive' = procAlive
             /\ attempts' = attempts
             /\ activePtys' = activePtys
             /\ terminalBackend' = terminalBackend
             /\ pty' = pty
             /\ childError' = childError
             /\ service' = service]_vars

C24_Witness ==
    \E c, d \in Conns :
       /\ pc[c] = "import" /\ dropped[c] > 0
       /\ pc[d] = "failed" /\ dropped[d] > 0
       /\ service = "listening"

\* The number of times chunk n of connection c has been emitted, and the
\* number of pipe slots that hold it.
Emitted(c, n) ==
    Cardinality({i \in 1..Len(outbound[c]) :
                    /\ outbound[c][i].type = "data"
                    /\ outbound[c][i].seq = n})

Buffered(c, n) ==
    Cardinality({<<s, i>> \in AllStreams \X (1..MaxChunks) :
                    i <= Len(pipes[c][s]) /\ pipes[c][s][i] = n})

\* Every chunk written so far is either still in its pipe or has been
\* emitted once, and chunks of one stream appear in the order written.
OutputOnceInOrder ==
    \A c \in Conns :
       /\ \A n \in 1..produced[c] : Emitted(c, n) + Buffered(c, n) = 1
       /\ \A i, j \in 1..Len(outbound[c]) :
             (/\ i < j
              /\ outbound[c][i].type = "data"
              /\ outbound[c][j].type = "data"
              /\ outbound[c][i].stream = outbound[c][j].stream) =>
                outbound[c][i].seq < outbound[c][j].seq

\* C25: every chunk a process writes is emitted on its connection's outbound
\* channel, exactly once, and chunks of the same stream are emitted in the
\* order the process wrote them (as long as the server process runs).
C25_OutputExactlyOnceInOrder ==
    /\ []OutputOnceInOrder
    /\ \A c \in Conns, n \in 1..MaxChunks :
          (produced[c] >= n) ~> (Emitted(c, n) = 1)

C25_Witness ==
    \E c \in Conns, s \in {"stdout", "stderr"} :
       /\ outbound[c] = <<DataChunk(s, 1), DataChunk(s, 2)>>
       /\ pipes[c][s] = << >>

\* C26 as stated: every answer of the health probe reports the service as
\* live and names the backend state of that moment, and the probe changes
\* neither the backend state nor the registry.
C26_HealthNamesBackend ==
    [][healthReplies' # healthReplies =>
          /\ \A r \in healthReplies' \ healthReplies :
                /\ r.status = "ok"
                /\ "backend" \in DOMAIN r
                /\ r.backend = terminalBackend
          /\ terminalBackend' = terminalBackend
          /\ activePtys' = activePtys]_vars

\* C27: the step that tears a connection down leaves the registry entry,
\* the handle, the process and the kill flags of every other connection as
\* they were.
C27_TeardownIsLocal ==
    [][\A c \in Conns :
          (pc[c] = "open" /\ pc'[c] = "closed") =>
             \A d \in Conns \ {c} :
                /\ (d \in DOMAIN activePtys) = (d \in DOMAIN activePtys')
                /\ d \in DOMAIN activePtys => activePtys'[d] = activePtys[d]
                /\ handle'[d] = handle[d]
                /\ procAlive'[d] = procAlive[d]
                /\ killed'[d] = killed[d]
                /\ killCalls'[d] = killCalls[d]
                /\ signals'[d] = signals[d]]_vars

C27_Witness ==
    \E c, d \in Conns :
       /\ pc[c] = "closed" /\ c \notin DOMAIN activePtys /\ signals[c] = 1
       /\ pc[d] = "open" /\ d \in DOMAIN activePtys /\ activePtys[d] = d
       /\ procAlive[d] /\ killCalls[d] = 0

\* C28: a request to a protected endpoint with an invalid token or with no
\* token is answered with 401, 403 is the answer to an expired token only,
\* and in none of these cases does the endpoint handler run.
C28_RejectionStatus ==
    \A i \in 1..Len(httpLog) :
       /\ httpLog[i].header \in {"absent", "noToken", "invalid"}
             => httpLog[i].status = 401
       /\ httpLog[i].status = 403 => httpLog[i].header = "expired"
       /\ httpLog[i].header # "valid" => ~httpLog[i].handled

Calls == Len(retry.outcomes)

RetryDone == retry.status \in {"returned", "threw"}

\* The parts of the statement that concern returning and the two
\* authentication errors.
RetryStopsEarly ==
    /\ Calls <= retry.maxAttempts
    /\ retry.status # "trapped"
    /\ \A i \in 1..Calls :
          /\ retry.outcomes[i] \in Results
                => /\ i = Calls
                   /\ retry.status = "returned"
                   /\ retry.result = retry.outcomes[i]
          /\ retry.outcomes[i] \in AuthErrors
                => /\ i = Calls
                   /\ retry.status = "threw"
                   /\ retry.thrown = retry.outcomes[i]
    /\ retry.status = "returned"
          => Calls >= 1 /\ retry.outcomes[Calls] \in Results

ThrowsLastAfterAll ==
    /\ Calls = retry.maxAttempts
    /\ retry.thrown = retry.outcomes[Calls]

ThrowsCancellation ==
    /\ retry.thrown = "cancelled"
    /\ Calls >= 1
    /\ Calls < retry.maxAttempts
    /\ retry.outcomes[Calls] \in OtherErrors

RetryAsStated ==
    retry.status # "idle"
      => /\ RetryStopsEarly
         /\ (retry.status = "threw" /\ retry.thrown \notin AuthErrors)
               => ThrowsLastAfterAll

RetryAmended ==
    (retry.status # "idle" /\ retry.delayFits)
      => /\ RetryStopsEarly
         /\ (retry.status = "threw" /\ retry.thrown \notin AuthErrors)
               => ThrowsLastAfterAll \/ ThrowsCancellation

\* C29 as stated: withRetry with maxAttempts >= 1 calls the operation at
\* most maxAttempts times, returns the first success without calling again,
\* stops at once on unauthorized or tokenExpired, otherwise throws the last
\* error after exactly maxAttempts failed attempts; it always terminates.
C29_WithRetryAsStated ==
    /\ []RetryAsStated
    /\ (retry.status = "calling") ~> RetryDone

\* C29: the same for a delay whose nanoseconds fit UInt64, with one more
\* way out: a cancellation while waiting between two attempts is thrown at
\* once, after fewer than maxAttempts attempts.
C29_WithRetry ==
    /\ []RetryAmended
    /\ (retry.status = "calling" /\ retry.delayFits) ~> RetryDone

C29_Witness ==
    /\ retry.status = "threw"
    /\ retry.delayFits
    /\ retry.maxAttempts = MaxAttempts
    /\ Calls = MaxAttempts
    /\ retry.thrown = retry.outcomes[Calls]
    /\ retry.thrown \in OtherErrors

\* C30: fetchData or sendCommand with a token the server rejects as invalid
\* or expired surfaces tokenExpired, not serverError.
C30_RejectedTokenSurfacesTokenExpired ==
    \A i \in 1..Len(httpLog) :
       (/\ httpLog[i].endpoint \in {DataEndpoint, CommandEndpoint}
        /\ httpLog[i].header \in {"invalid", "expired"})
          => httpLog[i].client = "tokenExpired"

KillThrowContained ==
    \A c \in Conns :
       killThrew[c] => (c \notin DOMAIN activePtys /\ service = "listening")

KillThrowIsLocal ==
    \A c \in Conns :
       (killThrew'[c] /\ ~killThrew[c])
          => /\ c \notin DOMAIN activePtys'
             /\ service' = service
             /\ childError' = childError
             /\ \A d \in Conns \ {c} :
                   /\ (d \in DOMAIN activePtys') = (d \in DOMAIN activePtys)
                   /\ d \in DOMAIN activePtys => activePtys'[d] = activePtys[d]
                   /\ handle'[d] = handle[d]
                   /\ procAlive'[d] = procAlive[d]
                   /\ killed'[d] = killed[d]
                   /\ killCalls'[d] = killCalls[d]
                   /\ connected'[d] = connected[d]
                   /\ pc'[d] = pc[d]
                   /\ outbound'[d] = outbound[d]

\* C31: when kill() throws in the disconnect listener, the connection's
\* registry entry is removed all the same, the error stays inside the
\* listener, and the service and the other sessions are left as they were.
C31_KillThrowContained ==
    /\ []KillThrowContained
    /\ [][KillThrowIsLocal]_vars

C31_Witness ==
    /\ killThrew[1]
    /\ 1 \notin DOMAIN activePtys
    /\ \E d \in Conns \ {1} :
          d \in DOMAIN activePtys /\ procAlive[d] /\ connected[d]
    /\ service = "listening"

\* C32: whatever is emitted on a connection's outbound channel was written
\* by that connection's own process or is its own exit notice, whatever
\* input the other connection sends and however their events interleave.
C32_OutputNeverCrosses ==
    \A c \in Conns : origins[c] \subseteq {c}

C32_Witness ==
    \E a, b \in Conns :
       /\ a # b
       /\ origins[a] = {a}
       /\ origins[b] = {b}
       /\ received[b] # << >>
       /\ \E i \in 1..Len(outbound[a]) : outbound[a][i].type = "data"

\* C33: in the gateway of app.js the connection handler runs only for
\* sockets whose handshake token verifies; a socket with a missing or
\* invalid token gets no welcome message, joins no room and has no event
\* handlers.
C33_GatewayAdmitsVerifiedOnly ==
    \A s \in Conns :
       /\ gateway[s].stage \in {"connected", "disconnected"}
             => gateway[s].token = "valid"
       /\ gateway[s].welcomed => gateway[s].token = "valid"
       /\ (gateway[s].stage # "none" /\ gateway[s].token # "valid")
             => /\ gateway[s].stage \in {"refused", "rejected"}
                /\ ~gateway[s].welcomed
                /\ gateway[s].rooms = {}
                /\ gateway[s].handlers = {}

C33_Witness ==
    \E s, t \in Conns :
       /\ gateway[s].stage = "rejected"
       /\ gateway[s].token = "expired"
       /\ gateway[t].stage = "connected"
       /\ gateway[t].welcomed

\* C34: after a receive or ping error on an open connection the manager
\* eventually calls connect() again, unless the application calls connect()
\* or disconnect() first.
C34_ErrorLeadsToReconnect ==
    (ws.awaiting /\ ws.opened < MaxTasks) ~> ~ws.awaiting

\* C35: after the application called disconnect() the manager holds no
\* connection until the application calls connect().
C35_StaysDisconnected ==
    ws.userDisconnected => ws.task = 0

====
